---- MODULE Spec2Model ----
(***************************************************************************)
(* The SSE channel manager (class SSEManager, services/analysisService)    *)
(* of the stock scanner server: the registry of long-connection responses, *)
(* the per-client short-polling message queues and the delayed queue       *)
(* cleanup scheduled by removeClient.                                      *)
(*                                                                         *)
(* Node runs every method to completion on one thread, so each method call *)
(* and each timer callback is one atomic action.                           *)
(***************************************************************************)
EXTENDS Integers, Sequences, FiniteSets, TLC

(* ---------------------------------------------------------------- bounds *)

\* Responses (one per long connection) the behaviours may open.
MaxResponses == 2
\* The clock's last value: now = MaxTime reads "MaxTime ticks or more".
MaxTime == 1
\* Messages the queues hold in total (the queue-only path never trims).
MaxQueued == 2

(* ----------------------------------------------------- program constants *)

\* queue.length > 1000 (scaled: the code's 1000 entries are 1 here).
QueueCap == 1
\* setTimeout(..., 60000) (scaled: the code's 60000 ms are 2 ticks here).
Grace == 2

(* ----------------------------------------------------------------- inputs *)

ClientIds == {"c1", "c2"}
\* The events the producers send: (eventType, data)
Events == {<<"analysis_progress", "go">>, <<"error", "stop">>}
Responses == 1..MaxResponses

\* What the response.write calls of sendToClient/broadcast, and the
\* response.end call of removeClient, do: "ok" (no throw), or the code (or, for
\* 'aborted', the message) of the error the call throws; for the writes, both
\* succeed or the first one throws.
WriteOutcomes == {"ok", "EPIPE", "EIO"}

VARIABLES
    clients,        \* Map<string, Response>, as its entries in insertion order
    messageQueues,  \* Map<string, Array<{eventType, data}>>
    timers,         \* pending setTimeout callbacks of removeClient, in schedule
                    \* order, each with the ticks left until it is due
    now,            \* the clock, in ticks
    resState,       \* per Response: "fresh" (not yet created), "open" (in clients,
                    \* writable && !destroyed), "destroyed" (in clients, closed
                    \* by the peer), "released" (no longer in clients)
    exchanges,      \* per Response: the clientId of its long connection while
                    \* the close/error handlers of handleSSEConnection can
                    \* still run, "" before the connection and after its close
    last            \* the last call: its arguments, return value and I/O

vars == <<clients, messageQueues, timers, now, resState, exchanges, last>>

(* ------------------------------------------------------------ Map helpers *)

\* this.clients.has(clientId)
clientsHas(cl, clientId) == \E i \in 1..Len(cl) : cl[i].clientId = clientId

\* this.clients.get(clientId)!  (only used where has() holds)
clientsGet(cl, clientId) ==
    LET i == CHOOSE j \in 1..Len(cl) : cl[j].clientId = clientId
    IN  cl[i].response

\* A clients that keeps the old entry of a key next to the new one
clientsSetAppends(cl, clientId, response) ==
    Append(cl, [clientId |-> clientId, response |-> response])

\* this.clients.set(clientId, response): an existing key keeps its position.
clientsSet(cl, clientId, response) ==
    IF clientsHas(cl, clientId)
    THEN [i \in 1..Len(cl) |->
            IF cl[i].clientId = clientId
            THEN [clientId |-> clientId, response |-> response]
            ELSE cl[i]]
    ELSE Append(cl, [clientId |-> clientId, response |-> response])

\* this.clients.delete(clientId)
clientsDelete(cl, clientId) == SelectSeq(cl, LAMBDA en : en.clientId # clientId)

\* The keys of this.clients
clientIdsOf(cl) == {cl[i].clientId : i \in 1..Len(cl)}

\* this.messageQueues.has(clientId)
queuesHas(mq, clientId) == clientId \in DOMAIN mq

\* this.messageQueues.set(clientId, queue)
queuesSet(mq, clientId, queue) ==
    [k \in DOMAIN mq \cup {clientId} |-> IF k = clientId THEN queue ELSE mq[k]]

\* this.messageQueues.delete(clientId)
queuesDelete(mq, clientId) == [k \in DOMAIN mq \ {clientId} |-> mq[k]]

\* The number of messages in all the queues
RECURSIVE Queued(_)
Queued(mq) ==
    IF DOMAIN mq = {} THEN 0
    ELSE LET k == CHOOSE c \in DOMAIN mq : TRUE
         IN  Len(mq[k]) + Queued([c \in DOMAIN mq \ {k} |-> mq[c]])

\* The last n elements of a sequence
LastN(queue, n) ==
    IF Len(queue) <= n THEN queue ELSE SubSeq(queue, Len(queue) - n + 1, Len(queue))

\* queue.shift()
shift(queue) == SubSeq(queue, 2, Len(queue))

(* ------------------------------------------------------------- SSEManager *)
\* The operators below work on a record  m  of the manager's fields
\* (clients, messageQueues), the timer list, the responses' states and the
\* I/O of the running call: attempted (the responses a frame was written
\* to, in order, whether or not the write threw), wrote (the text that went
\* out, in order), ended (the responses on which end() was called), ret
\* (sendToClient's return value), out (getPendingMessages' return value),
\* atLoopEnd (clients as broadcast's for loop leaves it), logged (the
\* console.error calls, in order), body (the content handleSSEConnection
\* writes to a short poll's response) and thrown (the error on its way out
\* of the call, "none" when there is none).

\* err.code === 'ECONNRESET' || err.code === 'EPIPE' || err.message === 'aborted'
isNormalDisconnect(err) == err \in {"ECONNRESET", "EPIPE", "aborted"}

\* console.error(`${text} ${clientId}:`, error), unless the error is a normal
\* disconnect
logUnlessNormal(m, text, clientId, err) ==
    IF isNormalDisconnect(err) THEN m
    ELSE [m EXCEPT !.logged = Append(@, [text |-> text, clientId |-> clientId, error |-> err])]

\* { event, data, timestamp: new Date().toISOString() }
Message(eventType, data, t) == [event |-> eventType, data |-> data, timestamp |-> t]

\* { eventType, data }: what sendToClient pushes on a queue
Entry(eventType, data) == [eventType |-> eventType, data |-> data]

\* `event: ${eventType}\n`
EventLine(eventType) == [line |-> "event", eventType |-> eventType]

\* `data: ${JSON.stringify(message)}\n\n`
DataLine(message) == [line |-> "data", message |-> message]

\* catch (error) { ... }: the error thrown in the try block goes no further
caught(m) == [m EXCEPT !.thrown = "none"]

\* The two response.write calls of sendToClient and broadcast; a throw leaves
\* the error in thrown until a catch takes it.
writeFrame(m, response, eventType, message, outcome) ==
    LET first == [response |-> response, text |-> EventLine(eventType)]
        second == [response |-> response, text |-> DataLine(message)]
        m1 == [m EXCEPT !.attempted = Append(@, response)]
    IN  IF outcome = "ok"
        THEN [m1 EXCEPT !.wrote = Append(Append(@, first), second)]
        ELSE [m1 EXCEPT !.thrown = outcome]

\* addClient setting the client's queue to a new empty array on every call
addClientResets(m, clientId, response) ==
    LET m1 == IF response # 0
              THEN [m EXCEPT
                      !.clients = clientsSet(@, clientId, response),
                      !.resState = IF /\ clientsHas(m.clients, clientId)
                                      /\ clientsGet(m.clients, clientId) # response
                                   THEN [@ EXCEPT ![clientsGet(m.clients, clientId)] = "released"]
                                   ELSE @]
              ELSE m
    IN  [m1 EXCEPT !.messageQueues = queuesSet(@, clientId, <<>>)]

\* addClient(clientId, response?)   (response = 0: no response given)
addClient(m, clientId, response) ==
    LET m1 == IF response # 0
              THEN [m EXCEPT
                      !.clients = clientsSet(@, clientId, response),
                      !.resState = IF /\ clientsHas(m.clients, clientId)
                                      /\ clientsGet(m.clients, clientId) # response
                                   THEN [@ EXCEPT ![clientsGet(m.clients, clientId)] = "released"]
                                   ELSE @]
              ELSE m
    IN  IF ~queuesHas(m1.messageQueues, clientId)
        THEN [m1 EXCEPT !.messageQueues = queuesSet(@, clientId, <<>>)]
        ELSE m1

\* removeClient without the try/catch around end(): a throw ends the call
removeClientEndFatal(m, clientId, endOutcome) ==
    IF clientsHas(m.clients, clientId)
    THEN LET response == clientsGet(m.clients, clientId)
             callsEnd == m.resState[response] = "open"
         IN  IF callsEnd /\ endOutcome # "ok"
             THEN [m EXCEPT !.ended = @ \cup {response}, !.thrown = endOutcome]
             ELSE [m EXCEPT
                     !.resState[response] = "released",
                     !.ended = IF callsEnd THEN @ \cup {response} ELSE @,
                     !.clients = clientsDelete(@, clientId),
                     !.timers = Append(@, [clientId |-> clientId, left |-> Grace])]
    ELSE m

\* removeClient scheduling the queue's deletion whether or not clients has
\* an entry
removeClientAlwaysSchedules(m, clientId, endOutcome) ==
    IF clientsHas(m.clients, clientId)
    THEN LET response == clientsGet(m.clients, clientId)
             callsEnd == m.resState[response] = "open"
         IN  [m EXCEPT
                !.resState[response] = "released",
                !.ended = IF callsEnd THEN @ \cup {response} ELSE @,
                !.clients = clientsDelete(@, clientId),
                !.timers = Append(@, [clientId |-> clientId, left |-> Grace])]
    ELSE [m EXCEPT !.timers = Append(@, [clientId |-> clientId, left |-> Grace])]

\* removeClient deleting the client's queue at once instead of scheduling
\* its deletion
removeClientDeletesNow(m, clientId, endOutcome) ==
    IF clientsHas(m.clients, clientId)
    THEN LET response == clientsGet(m.clients, clientId)
             callsEnd == m.resState[response] = "open"
         IN  [m EXCEPT
                !.resState[response] = "released",
                !.ended = IF callsEnd THEN @ \cup {response} ELSE @,
                !.clients = clientsDelete(@, clientId),
                !.messageQueues = queuesDelete(@, clientId)]
    ELSE m

\* removeClient(clientId); endOutcome: what response.end() does when it is
\* called
removeClient(m, clientId, endOutcome) ==
    IF clientsHas(m.clients, clientId)
    THEN LET response == clientsGet(m.clients, clientId)
             \* response.writable && !response.destroyed
             callsEnd == m.resState[response] = "open"
             m1 == IF callsEnd /\ endOutcome # "ok"
                   THEN logUnlessNormal(m, "Error closing SSE connection for",
                                        clientId, endOutcome)
                   ELSE m
         IN  [m1 EXCEPT
                !.resState[response] = "released",
                !.ended = IF callsEnd THEN @ \cup {response} ELSE @,
                !.clients = clientsDelete(@, clientId),
                \* setTimeout(() => this.messageQueues.delete(clientId), 60000)
                !.timers = Append(@, [clientId |-> clientId, left |-> Grace])]
    ELSE m

\* The queue-only branch creating the queue it does not find
sendQueueOnlyCreates(m, clientId, eventType, data) ==
    LET queue == IF queuesHas(m.messageQueues, clientId)
                 THEN m.messageQueues[clientId] ELSE <<>>
    IN  [m EXCEPT
            !.messageQueues = queuesSet(@, clientId,
                                Append(queue, Entry(eventType, data))),
            !.ret = TRUE]

\* The queue-only branch putting the message at the head (queue.unshift)
sendQueueOnlyUnshifts(m, clientId, eventType, data) ==
    IF queuesHas(m.messageQueues, clientId)
    THEN [m EXCEPT
            !.messageQueues[clientId] = <<Entry(eventType, data)>> \o @,
            !.ret = TRUE]
    ELSE [m EXCEPT !.ret = FALSE]

\* The queue-only branch treating a client whose queue is due for deletion
\* as unknown
sendQueueOnlyRefuses(m, clientId, eventType, data) ==
    IF /\ queuesHas(m.messageQueues, clientId)
       /\ ~\E i \in 1..Len(m.timers) : m.timers[i].clientId = clientId
    THEN [m EXCEPT
            !.messageQueues[clientId] = Append(@, Entry(eventType, data)),
            !.ret = TRUE]
    ELSE [m EXCEPT !.ret = FALSE]

\* sendToClient, no entry in clients (short polling)
sendQueueOnly(m, clientId, eventType, data) ==
    IF queuesHas(m.messageQueues, clientId)
    THEN [m EXCEPT
            !.messageQueues[clientId] = Append(@, Entry(eventType, data)),
            !.ret = TRUE]
    ELSE [m EXCEPT !.ret = FALSE]

\* The long-connection branch pushing on the queue before it writes
sendPushQueuesFirst(m, clientId, eventType, data, outcome, endOutcome, t) ==
    LET response == clientsGet(m.clients, clientId)
        m0 == IF queuesHas(m.messageQueues, clientId)
              THEN [m EXCEPT !.messageQueues[clientId] =
                        LastN(Append(@, Entry(eventType, data)), QueueCap)]
              ELSE m
        m1 == writeFrame(m0, response, eventType, Message(eventType, data, t), outcome)
    IN  IF outcome = "ok"
        THEN [m1 EXCEPT !.ret = TRUE]
        ELSE [removeClient(logUnlessNormal(caught(m1), "Error sending SSE message to",
                                           clientId, outcome),
                           clientId, endOutcome) EXCEPT !.ret = FALSE]

\* The long-connection branch leaving the client in place after an error
\* that is not a normal disconnect
sendPushAbnormalKeeps(m, clientId, eventType, data, outcome, endOutcome, t) ==
    LET response == clientsGet(m.clients, clientId)
        m1 == writeFrame(m, response, eventType, Message(eventType, data, t), outcome)
    IN  IF outcome = "ok"
        THEN IF queuesHas(m1.messageQueues, clientId)
             THEN [m1 EXCEPT
                     !.messageQueues[clientId] =
                         LastN(Append(@, Entry(eventType, data)), QueueCap),
                     !.ret = TRUE]
             ELSE [m1 EXCEPT !.ret = TRUE]
        ELSE IF isNormalDisconnect(outcome)
             THEN [removeClient(caught(m1), clientId, endOutcome) EXCEPT !.ret = FALSE]
             ELSE [logUnlessNormal(caught(m1), "Error sending SSE message to",
                                   clientId, outcome)
                     EXCEPT !.ret = FALSE]

\* The long-connection branch throwing the error again after its cleanup
\* (catch (error) { ...; throw error })
sendPushRethrows(m, clientId, eventType, data, outcome, endOutcome, t) ==
    LET response == clientsGet(m.clients, clientId)
        m1 == writeFrame(m, response, eventType, Message(eventType, data, t), outcome)
    IN  IF outcome = "ok"
        THEN IF queuesHas(m1.messageQueues, clientId)
             THEN [m1 EXCEPT
                     !.messageQueues[clientId] =
                         LastN(Append(@, Entry(eventType, data)), QueueCap),
                     !.ret = TRUE]
             ELSE [m1 EXCEPT !.ret = TRUE]
        ELSE [removeClient(logUnlessNormal(caught(m1), "Error sending SSE message to",
                                           clientId, outcome),
                           clientId, endOutcome) EXCEPT !.thrown = outcome]

\* sendToClient, entry in clients (long connection): write, then back up in
\* the queue; a throw leads to removeClient
sendPush(m, clientId, eventType, data, outcome, endOutcome, t) ==
    LET response == clientsGet(m.clients, clientId)
        m1 == writeFrame(m, response, eventType, Message(eventType, data, t), outcome)
    IN  IF outcome = "ok"
        THEN IF queuesHas(m1.messageQueues, clientId)
             THEN LET pushed == Append(m1.messageQueues[clientId], Entry(eventType, data))
                  IN  [m1 EXCEPT
                         !.messageQueues[clientId] =
                             IF Len(pushed) > QueueCap THEN shift(pushed) ELSE pushed,
                         !.ret = TRUE]
             ELSE [m1 EXCEPT !.ret = TRUE]
        ELSE IF isNormalDisconnect(outcome)
             THEN [removeClient(caught(m1), clientId, endOutcome) EXCEPT !.ret = FALSE]
             ELSE [removeClient(logUnlessNormal(caught(m1), "Error sending SSE message to",
                                                clientId, outcome),
                                clientId, endOutcome) EXCEPT !.ret = FALSE]

\* sendToClient(clientId, eventType, data)
sendToClient(m, clientId, eventType, data, outcome, endOutcome, t) ==
    IF ~clientsHas(m.clients, clientId)
    THEN sendQueueOnly(m, clientId, eventType, data)
    ELSE sendPush(m, clientId, eventType, data, outcome, endOutcome, t)

\* getPendingMessages returning the queue without clearing it
getPendingMessagesKeeps(m, clientId) ==
    IF ~queuesHas(m.messageQueues, clientId) THEN [m EXCEPT !.out = <<>>]
    ELSE [m EXCEPT !.out = m.messageQueues[clientId]]

\* getPendingMessages deleting the drained queue from messageQueues
getPendingMessagesDeletes(m, clientId) ==
    IF ~queuesHas(m.messageQueues, clientId) THEN [m EXCEPT !.out = <<>>]
    ELSE [m EXCEPT !.out = m.messageQueues[clientId],
                   !.messageQueues = queuesDelete(@, clientId)]

\* getPendingMessages removing only the oldest message (queue.shift())
getPendingMessagesShifts(m, clientId) ==
    IF ~queuesHas(m.messageQueues, clientId) \/ Len(m.messageQueues[clientId]) = 0
    THEN [m EXCEPT !.out = <<>>]
    ELSE [m EXCEPT !.out = m.messageQueues[clientId],
                   !.messageQueues[clientId] = shift(@)]

\* getPendingMessages(clientId)
getPendingMessages(m, clientId) ==
    IF ~queuesHas(m.messageQueues, clientId) \/ Len(m.messageQueues[clientId]) = 0
    THEN [m EXCEPT !.out = <<>>]
    ELSE [m EXCEPT !.out = m.messageQueues[clientId],
                   !.messageQueues[clientId] = <<>>]

\* deadClients.forEach((clientId) => this.removeClient(clientId))
\* endOutcome[clientId]: what that client's response.end() does, for the
\* clients whose end() is called
RECURSIVE removeEach(_, _, _)
removeEach(m, deadClients, endOutcome) ==
    IF deadClients = <<>> THEN m
    ELSE removeEach(removeClient(m, Head(deadClients),
                                 IF Head(deadClients) \in DOMAIN endOutcome
                                 THEN endOutcome[Head(deadClients)] ELSE "ok"),
                    Tail(deadClients), endOutcome)

\* The for loop of broadcast without the try/catch: the first throw ends it
RECURSIVE broadcastLoopStops(_, _, _, _, _, _)
broadcastLoopStops(m, i, eventType, message, outcome, deadClients) ==
    IF i > Len(m.clients) THEN [m |-> m, deadClients |-> deadClients]
    ELSE LET en == m.clients[i]
             m1 == writeFrame(m, en.response, eventType, message, outcome[en.clientId])
         IN  IF outcome[en.clientId] = "ok"
             THEN broadcastLoopStops(m1, i + 1, eventType, message, outcome, deadClients)
             ELSE [m |-> m1, deadClients |-> deadClients]

\* The for loop of broadcast deleting a dead client's entry on the spot
RECURSIVE broadcastLoopDeletes(_, _, _, _, _, _)
broadcastLoopDeletes(m, i, eventType, message, outcome, deadClients) ==
    IF i > Len(m.clients) THEN [m |-> m, deadClients |-> deadClients]
    ELSE LET en == m.clients[i]
             m1 == writeFrame(m, en.response, eventType, message, outcome[en.clientId])
         IN  IF outcome[en.clientId] = "ok"
             THEN broadcastLoopDeletes(m1, i + 1, eventType, message, outcome, deadClients)
             ELSE broadcastLoopDeletes(
                      [caught(m1) EXCEPT !.clients = clientsDelete(@, en.clientId)],
                      i, eventType, message, outcome, deadClients)

\* for (const [clientId, response] of this.clients.entries()) { try .. catch }
\* from entry i on; outcome[clientId] is what the writes to that client do
RECURSIVE broadcastLoop(_, _, _, _, _, _)
broadcastLoop(m, i, eventType, message, outcome, deadClients) ==
    IF i > Len(m.clients) THEN [m |-> m, deadClients |-> deadClients]
    ELSE LET en == m.clients[i]
             m1 == writeFrame(m, en.response, eventType, message, outcome[en.clientId])
         IN  IF outcome[en.clientId] = "ok"
             THEN broadcastLoop(m1, i + 1, eventType, message, outcome, deadClients)
             ELSE broadcastLoop(logUnlessNormal(caught(m1), "Error broadcasting to",
                                                en.clientId, outcome[en.clientId]),
                                i + 1, eventType, message, outcome,
                                Append(deadClients, en.clientId))

\* broadcast backing each written message up in the client's queue, as
\* sendToClient does
broadcastQueues(m, eventType, data, outcome, endOutcome, t) ==
    LET loop == broadcastLoop(m, 1, eventType, Message(eventType, data, t), outcome, <<>>)
        m1 == [loop.m EXCEPT
                 !.atLoopEnd = loop.m.clients,
                 !.messageQueues =
                     [k \in DOMAIN @ |->
                        IF clientsHas(m.clients, k) /\ outcome[k] = "ok"
                        THEN LastN(Append(@[k], Entry(eventType, data)), QueueCap)
                        ELSE @[k]]]
    IN  removeEach(m1, loop.deadClients, endOutcome)

\* broadcast(eventType, data)
broadcast(m, eventType, data, outcome, endOutcome, t) ==
    LET loop == broadcastLoop(m, 1, eventType, Message(eventType, data, t), outcome, <<>>)
        m1 == [loop.m EXCEPT !.atLoopEnd = loop.m.clients]
    IN  removeEach(m1, loop.deadClients, endOutcome)

\* getClientCount(): this.clients.size
getClientCount(cl) == Len(cl)

(* ---------------------------------------------------- handleSSEConnection *)

\* `event: connected\ndata: ${JSON.stringify({ client_id, message: 'Connected' })}\n\n`
initialMessage(clientId) ==
    <<EventLine("connected"),
      [line |-> "data", message |-> [client_id |-> clientId, message |-> "Connected"]]>>

\* for (const msg of pendingMessages) { responseContent += ... }: the frames
\* of the drained messages, each stamped with the time of the poll
RECURSIVE pendingFrames(_, _)
pendingFrames(pendingMessages, t) ==
    IF pendingMessages = <<>> THEN <<>>
    ELSE LET msg == Head(pendingMessages)
         IN  <<EventLine(msg.eventType), DataLine(Message(msg.eventType, msg.data, t))>>
             \o pendingFrames(Tail(pendingMessages), t)

\* handleSSEConnection, long connection, registering the response without
\* writing the connected event
handleSSEConnectionPushSilent(m, clientId, response) ==
    addClient(m, clientId, response)

\* handleSSEConnection, long connection: sseManager.addClient(clientId, res)
\* and res.write(initialMessage) on the new response
handleSSEConnectionPush(m, clientId, response) ==
    LET m1 == addClient(m, clientId, response)
    IN  [m1 EXCEPT
            !.attempted = Append(@, response),
            !.wrote = @ \o [i \in 1..2 |->
                              [response |-> response, text |-> initialMessage(clientId)[i]]]]

\* The short poll reading the queue without clearing it
handleSSEConnectionPollPeeks(m, clientId, hasLastEventId, t) ==
    LET m1 == getPendingMessagesKeeps(addClient(m, clientId, 0), clientId)
        first == IF ~hasLastEventId THEN initialMessage(clientId) ELSE <<>>
    IN  [m1 EXCEPT !.body = first \o pendingFrames(m1.out, t)]

\* The short poll sending the connected event whether or not the request
\* has a last_event_id
handleSSEConnectionPollGreets(m, clientId, hasLastEventId, t) ==
    LET m1 == getPendingMessages(addClient(m, clientId, 0), clientId)
    IN  [m1 EXCEPT !.body = initialMessage(clientId) \o pendingFrames(m1.out, t)]

\* handleSSEConnection, short polling (poll=true): addClient without a
\* response, getPendingMessages, and the body written to the poll's response
handleSSEConnectionPoll(m, clientId, hasLastEventId, t) ==
    LET m1 == getPendingMessages(addClient(m, clientId, 0), clientId)
        pendingMessages == m1.out
        first == IF ~hasLastEventId THEN initialMessage(clientId) ELSE <<>>
        atLeastOne == IF Len(pendingMessages) = 0 /\ ~hasLastEventId
                      THEN initialMessage(clientId) ELSE <<>>
    IN  [m1 EXCEPT !.body = first \o pendingFrames(pendingMessages, t) \o atLeastOne]

(* ------------------------------------------------------------ the machine *)

NoOutcome == [clientId \in {} |-> "ok"]

\* The manager's fields and the environment as a call finds them
Cur ==
    [clients |-> clients, messageQueues |-> messageQueues, timers |-> timers,
     resState |-> resState,
     attempted |-> <<>>, wrote |-> <<>>, ended |-> {}, ret |-> FALSE, out |-> <<>>,
     atLoopEnd |-> <<>>, logged |-> <<>>, body |-> <<>>, thrown |-> "none"]

\* The record of a call; for a short poll, hasLastEventId is
\* !!req.query.last_event_id and again tells that the call before it was a
\* short poll of the same client; for a close or error event, exchange is
\* the response of the connection the event belongs to
Call(op, clientId, eventType, data, outcome, m) ==
    [op |-> op, clientId |-> clientId, eventType |-> eventType, data |-> data,
     outcome |-> outcome,
     attempted |-> m.attempted, wrote |-> m.wrote, ended |-> m.ended,
     ret |-> m.ret, out |-> m.out, atLoopEnd |-> m.atLoopEnd,
     body |-> m.body, thrown |-> m.thrown, hasLastEventId |-> FALSE, again |-> FALSE,
     exchange |-> 0]

\* The state a call leaves
Becomes(m, call) ==
    /\ clients' = m.clients
    /\ messageQueues' = m.messageQueues
    /\ timers' = m.timers
    /\ resState' = m.resState
    /\ last' = call

Init ==
    /\ clients = <<>>
    /\ messageQueues = [clientId \in {} |-> <<>>]
    /\ timers = <<>>
    /\ now = 0
    /\ resState = [r \in Responses |-> "fresh"]
    /\ exchanges = [r \in Responses |-> ""]
    /\ last = Call("init", "", "", "", NoOutcome, Cur)

\* What end() can do for a client: it is only called on an open response
EndOutcomesFor(clientId) ==
    IF clientsHas(clients, clientId) /\ resState[clientsGet(clients, clientId)] = "open"
    THEN WriteOutcomes ELSE {"ok"}

\* sseManager.addClient(clientId): short polling, no response
AddClient(clientId) ==
    /\ \E m \in {addClient(Cur, clientId, 0)} :
        Becomes(m, Call("addClient", clientId, "", "", NoOutcome, m))
    /\ UNCHANGED <<now, exchanges>>

\* sseManager.addClient(clientId, res) with the response of a new long connection
AddClientResponse(clientId) ==
    /\ \E r \in Responses :
        /\ resState[r] = "fresh"
        /\ \A q \in Responses : q < r => resState[q] # "fresh"
        /\ \E m \in {handleSSEConnectionPush([Cur EXCEPT !.resState[r] = "open"],
                                            clientId, r)} :
            Becomes(m, Call("addClientResponse", clientId, "", "", NoOutcome, m))
        \* req.on('close', ..), req.on('error', ..), res.on('error', ..)
        /\ exchanges' = [exchanges EXCEPT ![r] = clientId]
    /\ UNCHANGED now

\* sseManager.removeClient(clientId)
RemoveClient(clientId) ==
    /\ \E endOutcome \in EndOutcomesFor(clientId) :
       \E m \in {removeClient(Cur, clientId, endOutcome)} :
        Becomes(m, Call("removeClient", clientId, "", "",
                        [c \in {clientId} |-> endOutcome], m))
    /\ UNCHANGED <<now, exchanges>>

\* sseManager.sendToClient(clientId, eventType, data)
SendToClient(clientId, eventType, data) ==
    /\ Queued(messageQueues) < MaxQueued
    /\ \E outcome \in (IF clientsHas(clients, clientId) THEN WriteOutcomes ELSE {"ok"}) :
       \E endOutcome \in (IF outcome = "ok" THEN {"ok"} ELSE EndOutcomesFor(clientId)) :
       \E m \in {sendToClient(Cur, clientId, eventType, data, outcome, endOutcome, now)} :
        Becomes(m, Call("sendToClient", clientId, eventType, data,
                        [c \in {clientId} |-> outcome], m))
    /\ UNCHANGED <<now, exchanges>>

\* sseManager.getPendingMessages(clientId)
GetPendingMessages(clientId) ==
    /\ \E m \in {getPendingMessages(Cur, clientId)} :
        Becomes(m, Call("getPendingMessages", clientId, "", "", NoOutcome, m))
    /\ UNCHANGED <<now, exchanges>>

\* GET /sse?client_id=...&poll=true[&last_event_id=...]
PollConnect(clientId, hasLastEventId) ==
    /\ \E m \in {handleSSEConnectionPoll(Cur, clientId, hasLastEventId, now)} :
        Becomes(m, [Call("poll", clientId, "", "", NoOutcome, m) EXCEPT
                      !.hasLastEventId = hasLastEventId,
                      !.again = last.op = "poll" /\ last.clientId = clientId])
    /\ UNCHANGED <<now, exchanges>>

\* sseManager.broadcast(eventType, data)
Broadcast(eventType, data) ==
    /\ \E outcome \in [clientIdsOf(clients) -> WriteOutcomes] :
       \E endOutcome \in [{c \in clientIdsOf(clients) :
                               outcome[c] # "ok" /\ resState[clientsGet(clients, c)] = "open"}
                            -> WriteOutcomes] :
       \E m \in {broadcast(Cur, eventType, data, outcome, endOutcome, now)} :
        Becomes(m, Call("broadcast", "", eventType, data, outcome, m))
    /\ UNCHANGED <<now, exchanges>>

\* The callback of removeClient's setTimeout: this.messageQueues.delete(clientId)
TimerFires ==
    /\ timers # <<>>
    /\ Head(timers).left = 0
    /\ messageQueues' = queuesDelete(messageQueues, Head(timers).clientId)
    /\ timers' = Tail(timers)
    /\ last' = Call("timer", Head(timers).clientId, "", "", NoOutcome, Cur)
    /\ UNCHANGED <<clients, now, resState, exchanges>>

\* Node delivers the close event (req.on('close')) or an error event
\* (req.on('error'), res.on('error')) of the long connection of response r:
\* the handler calls sseManager.removeClient with the clientId of its
\* connection; after the close event the connection has no more events. The
\* handlers' own res.end() acts on r, which is out of clients by then.
ExchangeEvent(r, event) ==
    /\ exchanges[r] # ""
    /\ \E endOutcome \in EndOutcomesFor(exchanges[r]) :
       \E m \in {removeClient(Cur, exchanges[r], endOutcome)} :
        Becomes(m, [Call(event, exchanges[r], "", "", NoOutcome, m) EXCEPT !.exchange = r])
    /\ exchanges' = IF event = "close" THEN [exchanges EXCEPT ![r] = ""] ELSE exchanges
    /\ UNCHANGED now

\* The peer closes a registered long connection: the response is no longer
\* writable
PeerCloses(r) ==
    /\ resState[r] = "open"
    /\ \E i \in 1..Len(clients) : clients[i].response = r
    /\ resState' = [resState EXCEPT ![r] = "destroyed"]
    /\ last' = Call("peerCloses", "", "", "", NoOutcome, Cur)
    /\ UNCHANGED <<clients, messageQueues, timers, now, exchanges>>

\* A tick of time passes
Tick ==
    /\ now < MaxTime \/ \E i \in 1..Len(timers) : timers[i].left > 0
    /\ now' = IF now < MaxTime THEN now + 1 ELSE now
    /\ timers' = [i \in 1..Len(timers) |->
                    [timers[i] EXCEPT !.left = IF @ > 0 THEN @ - 1 ELSE 0]]
    /\ last' = Call("tick", "", "", "", NoOutcome, Cur)
    /\ UNCHANGED <<clients, messageQueues, resState, exchanges>>

Next ==
    \/ \E clientId \in ClientIds : AddClient(clientId)
    \/ \E clientId \in ClientIds : AddClientResponse(clientId)
    \/ \E clientId \in ClientIds : RemoveClient(clientId)
    \/ \E clientId \in ClientIds, ev \in Events : SendToClient(clientId, ev[1], ev[2])
    \/ \E clientId \in ClientIds : GetPendingMessages(clientId)
    \/ \E clientId \in ClientIds, hasLastEventId \in BOOLEAN :
          PollConnect(clientId, hasLastEventId)
    \/ \E ev \in Events : Broadcast(ev[1], ev[2])
    \/ TimerFires
    \/ \E r \in Responses, event \in {"close", "error"} : ExchangeEvent(r, event)
    \/ \E r \in Responses : PeerCloses(r)
    \/ Tick

Spec == Init /\ [][Next]_vars

\* Node's event loop lets time pass and runs every setTimeout callback that
\* is due.
FairSpec == Spec /\ WF_vars(Tick) /\ WF_vars(TimerFires)

(* ------------------------------------------------------------- properties *)

IsPrefix(p, q) == Len(p) <= Len(q) /\ SubSeq(q, 1, Len(p)) = p

\* A removeClient(clientId) that deleted an entry of clients was called less
\* than the grace delay ago: its timer has ticks left.
InGrace(clientId) ==
    \E i \in 1..Len(timers) : timers[i].clientId = clientId /\ timers[i].left > 0

\* C1: sendToClient for a client id that has no entry in clients and no queue
\* returns false and changes neither clients nor messageQueues.
C1_UnknownClientSend ==
    [][(/\ last'.op = "sendToClient"
        /\ ~clientsHas(clients, last'.clientId)
        /\ ~queuesHas(messageQueues, last'.clientId))
       => (/\ last'.ret = FALSE
           /\ clients' = clients
           /\ messageQueues' = messageQueues)]_vars

C1_Witness ==
    /\ last.op = "sendToClient"
    /\ last.ret = FALSE
    /\ last.attempted = <<>>
    /\ ~clientsHas(clients, last.clientId)
    /\ ~queuesHas(messageQueues, last.clientId)

\* C2: for a client id with no entry in clients and nothing queued,
\* addClient(id) without a response leaves an empty queue and no entry; one
\* sendToClient(id, e, d) then returns true and leaves exactly the message
\* (e, d) in the queue; getPendingMessages(id) then returns exactly that one
\* message and empties the queue; and getPendingMessages(id) on the emptied
\* queue returns the empty sequence.
C2_SendThenDrain ==
    [][LET id == last'.clientId
       IN  /\ (/\ last'.op = "addClient"
               /\ ~clientsHas(clients, id)
               /\ queuesHas(messageQueues, id) => messageQueues[id] = <<>>)
              => (/\ ~clientsHas(clients', id)
                  /\ queuesHas(messageQueues', id)
                  /\ messageQueues'[id] = <<>>)
           /\ (/\ last'.op = "sendToClient"
               /\ ~clientsHas(clients, id)
               /\ queuesHas(messageQueues, id)
               /\ messageQueues[id] = <<>>)
              => (/\ last'.ret = TRUE
                  /\ ~clientsHas(clients', id)
                  /\ queuesHas(messageQueues', id)
                  /\ messageQueues'[id] = <<Entry(last'.eventType, last'.data)>>)
           /\ (/\ last'.op = "getPendingMessages"
               /\ queuesHas(messageQueues, id)
               /\ Len(messageQueues[id]) = 1)
              => (/\ last'.out = messageQueues[id]
                  /\ queuesHas(messageQueues', id)
                  /\ messageQueues'[id] = <<>>)
           /\ (/\ last'.op = "getPendingMessages"
               /\ queuesHas(messageQueues, id)
               /\ messageQueues[id] = <<>>)
              => (/\ last'.out = <<>>
                  /\ messageQueues' = messageQueues)]_vars

C2_Witness ==
    /\ last.op = "getPendingMessages"
    /\ Len(last.out) = 1
    /\ ~clientsHas(clients, last.clientId)
    /\ queuesHas(messageQueues, last.clientId)
    /\ messageQueues[last.clientId] = <<>>

\* C3: whenever sendToClient is called for a client id that has an entry in
\* clients and returns true, the frame (event line and data line) was written
\* to that entry's response and the message is the last element of the id's
\* queue.
C3_DualWrite ==
    [][(/\ last'.op = "sendToClient"
        /\ clientsHas(clients, last'.clientId)
        /\ last'.ret = TRUE)
       => LET id == last'.clientId
              response == clientsGet(clients, id)
          IN  /\ Len(last'.wrote) = 2
              /\ last'.wrote[1] = [response |-> response,
                                   text |-> EventLine(last'.eventType)]
              /\ last'.wrote[2].response = response
              /\ last'.wrote[2].text.line = "data"
              /\ last'.wrote[2].text.message.event = last'.eventType
              /\ last'.wrote[2].text.message.data = last'.data
              /\ queuesHas(messageQueues', id)
              /\ messageQueues'[id] # <<>>
              /\ messageQueues'[id][Len(messageQueues'[id])]
                    = Entry(last'.eventType, last'.data)]_vars

\* C4: a sendToClient to a queue-only client (a queue, no entry in clients)
\* leaves the queue holding the most recent QueueCap messages in send order,
\* the oldest evicted.
C4_QueueOnlyKeepsMostRecent ==
    [][(/\ last'.op = "sendToClient"
        /\ ~clientsHas(clients, last'.clientId)
        /\ queuesHas(messageQueues, last'.clientId))
       => LET id == last'.clientId
          IN  /\ queuesHas(messageQueues', id)
              /\ messageQueues'[id]
                    = LastN(Append(messageQueues[id],
                                   Entry(last'.eventType, last'.data)), QueueCap)]_vars

\* C5: in every reachable state every queue holds at most QueueCap messages.
C5_QueueBound ==
    \A clientId \in DOMAIN messageQueues : Len(messageQueues[clientId]) <= QueueCap

\* C6: removeClient(id) for an id with an entry in clients leaves
\* getClientCount() one less and no entry for id, also when end() throws; for
\* an id without an entry it leaves getClientCount() unchanged.
C6_RemoveClientCount ==
    [][last'.op = "removeClient"
       => IF clientsHas(clients, last'.clientId)
          THEN /\ getClientCount(clients') = getClientCount(clients) - 1
               /\ ~clientsHas(clients', last'.clientId)
          ELSE getClientCount(clients') = getClientCount(clients)]_vars

C6_Witness ==
    /\ last.op = "removeClient"
    /\ last.outcome[last.clientId] # "ok"
    /\ last.ended # {}
    /\ ~clientsHas(clients, last.clientId)
    /\ getClientCount(clients) = 1

\* C7: while less than the grace delay has passed since a removeClient(id)
\* that deleted an entry of clients, the messages in the id's queue stay
\* retrievable: no step other than a getPendingMessages(id) (also the one
\* of a short poll) or a sendToClient(id) (eviction at the cap) takes the
\* queue or one of its messages away.
C7_GraceWindow ==
    [][\A id \in ClientIds :
        (/\ InGrace(id)
         /\ queuesHas(messageQueues, id)
         /\ messageQueues[id] # <<>>
         /\ ~(last'.op \in {"getPendingMessages", "poll", "sendToClient"}
              /\ last'.clientId = id))
        => (/\ queuesHas(messageQueues', id)
            /\ IsPrefix(messageQueues[id], messageQueues'[id]))]_vars

\* C8: when the timer of a removeClient(id) fires after the client
\* re-registered (the id has an entry in clients again, or the call before
\* the timer was an addClient of that id), the id's queue and its messages
\* stay in place.
C8_TimerSparesReRegistered ==
    [][(/\ last'.op = "timer"
        /\ \/ clientsHas(clients, last'.clientId)
           \/ (/\ last.op \in {"addClient", "addClientResponse"}
               /\ last.clientId = last'.clientId))
       => (/\ queuesHas(messageQueues', last'.clientId)
           /\ queuesHas(messageQueues, last'.clientId)
           /\ messageQueues'[last'.clientId] = messageQueues[last'.clientId])]_vars

\* C9: broadcast writes to the response of every entry clients has when it
\* starts, each exactly once, whether or not the writes to other clients
\* throw.
C9_BroadcastAttemptsAll ==
    [][last'.op = "broadcast"
       => (/\ Len(last'.attempted) = Len(clients)
           /\ {last'.attempted[i] : i \in 1..Len(last'.attempted)}
                = {clients[i].response : i \in 1..Len(clients)})]_vars

C9_Witness ==
    /\ last.op = "broadcast"
    /\ Len(last.atLoopEnd) = 2
    /\ Len(last.attempted) = 2
    /\ last.outcome[last.atLoopEnd[1].clientId] # "ok"

\* C10: broadcast's loop leaves clients as it found it, and when broadcast
\* returns clients holds exactly the entries it had at the start minus those
\* of the clients whose write threw.
C10_BroadcastRemovesAfterLoop ==
    [][last'.op = "broadcast"
       => (/\ last'.atLoopEnd = clients
           /\ clients' = SelectSeq(clients,
                            LAMBDA en : last'.outcome[en.clientId] = "ok"))]_vars

C10_Witness ==
    /\ last.op = "broadcast"
    /\ Len(last.atLoopEnd) = 2
    /\ Len(clients) = 1
    /\ last.outcome[last.atLoopEnd[1].clientId] # "ok"
    /\ last.outcome[last.atLoopEnd[2].clientId] = "ok"

\* C11: broadcast leaves messageQueues as it found it: no queue, of a client
\* with or without an entry in clients, gains or loses a message or comes
\* into or out of existence.
C11_BroadcastLeavesQueues ==
    [][last'.op = "broadcast" => messageQueues' = messageQueues]_vars

\* A broadcast that wrote its frame to a client that has a queue, while a
\* client without an entry in clients has a queue too.
C11_Witness ==
    /\ last.op = "broadcast"
    /\ Len(last.wrote) = 2
    /\ \E i \in 1..Len(clients) : queuesHas(messageQueues, clients[i].clientId)
    /\ \E id \in DOMAIN messageQueues : ~clientsHas(last.atLoopEnd, id)

\* C12: removeClient for a client id without an entry in clients changes
\* neither clients nor messageQueues and schedules no timer; and a second
\* removeClient of the same id right after any removeClient changes nothing
\* more: clients, messageQueues and the timers stay as the first call left
\* them.
C12_RemoveClientIdempotent ==
    [][last'.op = "removeClient"
       => LET id == last'.clientId
          IN  /\ ~clientsHas(clients, id)
                 => (/\ clients' = clients
                     /\ messageQueues' = messageQueues
                     /\ timers' = timers)
              /\ \A endOutcome \in WriteOutcomes :
                    LET again == removeClient(Cur', id, endOutcome)
                    IN  /\ again.clients = clients'
                        /\ again.messageQueues = messageQueues'
                        /\ again.timers = timers'
                        /\ again.ended = {}]_vars

\* A removeClient of an id removed before: its timer is already running, and
\* the call added none.
C12_Witness ==
    /\ last.op = "removeClient"
    /\ ~clientsHas(clients, last.clientId)
    /\ queuesHas(messageQueues, last.clientId)
    /\ \E i \in 1..Len(timers) :
          timers[i].clientId = last.clientId /\ timers[i].left < Grace
    /\ \A i \in 1..Len(timers) :
          timers[i].clientId = last.clientId => timers[i].left < Grace

\* C13: after addClient the client id has a queue; a queue it had before
\* keeps its messages, and no other queue changes; without a response
\* clients is unchanged, and with one clients maps the id to it; and the same
\* addClient call made again right away changes neither clients nor
\* messageQueues.
C13_AddClientIdempotent ==
    [][last'.op \in {"addClient", "addClientResponse"}
       => LET id == last'.clientId
              response == IF last'.op = "addClient" THEN 0 ELSE clientsGet(clients', id)
              again == addClient(Cur', id, response)
          IN  /\ queuesHas(messageQueues', id)
              /\ messageQueues' = IF queuesHas(messageQueues, id) THEN messageQueues
                                  ELSE queuesSet(messageQueues, id, <<>>)
              /\ last'.op = "addClient" => clients' = clients
              /\ last'.op = "addClientResponse"
                 => (/\ clientsHas(clients', id)
                     /\ clientIdsOf(clients') = clientIdsOf(clients) \cup {id}
                     /\ \A k \in clientIdsOf(clients) \ {id} :
                           clientsGet(clients', k) = clientsGet(clients, k))
              /\ again.clients = clients'
              /\ again.messageQueues = messageQueues'
              /\ again.resState = resState']_vars

\* An addClient with a response for a client whose queue holds a message
C13_Witness ==
    /\ last.op = "addClientResponse"
    /\ clientsHas(clients, last.clientId)
    /\ queuesHas(messageQueues, last.clientId)
    /\ messageQueues[last.clientId] # <<>>

\* C14: when sendToClient finds an entry in clients and the write throws, it
\* returns false, leaves clients, the timers and the responses as
\* removeClient of that id does (the entry deleted, one timer of Grace ticks
\* added), and leaves messageQueues unchanged: the message is not queued.
C14_SendThrows ==
    [][(/\ last'.op = "sendToClient"
        /\ clientsHas(clients, last'.clientId)
        /\ last'.outcome[last'.clientId] # "ok")
       => LET id == last'.clientId
          IN  /\ last'.ret = FALSE
              /\ \E endOutcome \in WriteOutcomes :
                    LET removed == removeClient(Cur, id, endOutcome)
                    IN  /\ clients' = removed.clients
                        /\ timers' = removed.timers
                        /\ resState' = removed.resState
                        /\ last'.ended = removed.ended
              /\ ~clientsHas(clients', id)
              /\ timers' = Append(timers, [clientId |-> id, left |-> Grace])
              /\ messageQueues' = messageQueues]_vars

\* A sendToClient whose write threw, for a client with a queue
C14_Witness ==
    /\ last.op = "sendToClient"
    /\ last.outcome[last.clientId] # "ok"
    /\ last.attempted # <<>>
    /\ last.ret = FALSE
    /\ ~clientsHas(clients, last.clientId)
    /\ queuesHas(messageQueues, last.clientId)

\* The errors a write or an end() can throw
Failures == WriteOutcomes \ {"ok"}

\* The call result m leaves clients, messageQueues and the timers as the
\* step does.
SameStateAs(m) ==
    /\ m.clients = clients'
    /\ m.messageQueues = messageQueues'
    /\ m.timers = timers'

\* C15: whatever error a failing write or end() throws, normal disconnect or
\* not, the call leaves the same clients, messageQueues and timers and returns
\* the same value: every sendToClient whose write throws, every broadcast and
\* every removeClient whose end() throws ends as the same call does when
\* each error thrown is the normal disconnect EPIPE; only the console.error
\* calls differ (none for a normal disconnect, one otherwise).
C15_ClassificationFrame ==
    [][LET id == last'.clientId
       IN  /\ (/\ last'.op = "sendToClient"
               /\ clientsHas(clients, id)
               /\ last'.outcome[id] # "ok")
              => LET normal == sendToClient(Cur, id, last'.eventType, last'.data,
                                            "EPIPE", "EPIPE", now)
                     same == sendToClient(Cur, id, last'.eventType, last'.data,
                                          last'.outcome[id], "ok", now)
                 IN  /\ SameStateAs(normal)
                     /\ normal.ret = last'.ret
                     /\ normal.logged = <<>>
                     /\ isNormalDisconnect(last'.outcome[id]) <=> same.logged = <<>>
           /\ last'.op = "broadcast"
              => SameStateAs(broadcast(Cur, last'.eventType, last'.data,
                                       [k \in clientIdsOf(clients) |->
                                          IF last'.outcome[k] = "ok" THEN "ok" ELSE "EPIPE"],
                                       [k \in clientIdsOf(clients) |-> "EPIPE"], now))
           /\ (last'.op = "removeClient" /\ last'.outcome[id] # "ok")
              => SameStateAs(removeClient(Cur, id, "EPIPE"))]_vars

\* A broadcast whose write to one client threw a normal disconnect and whose
\* write to another threw another error, both clients removed
C15_Witness ==
    /\ last.op = "broadcast"
    /\ Len(last.atLoopEnd) = 2
    /\ isNormalDisconnect(last.outcome[last.atLoopEnd[1].clientId])
    /\ last.outcome[last.atLoopEnd[2].clientId] \in Failures
    /\ ~isNormalDisconnect(last.outcome[last.atLoopEnd[2].clientId])
    /\ clients = <<>>
    /\ Len(timers) >= 2

\* The messages of a client's queue; none when it has no queue
QueueOf(mq, clientId) == IF queuesHas(mq, clientId) THEN mq[clientId] ELSE <<>>

\* The step is a drain of the client's queue: getPendingMessages, called
\* directly or by a short poll
Drains(call, clientId) ==
    call.op \in {"getPendingMessages", "poll"} /\ call.clientId = clientId

\* C16: getPendingMessages(id) returns all the messages of the id's queue in
\* queue order and leaves the queue in messageQueues, empty; for an id
\* without a queue it returns the empty sequence and adds no queue; and
\* clients is unchanged.
C16_DrainReturnsAll ==
    [][last'.op = "getPendingMessages"
       => LET id == last'.clientId
          IN  /\ clients' = clients
              /\ IF queuesHas(messageQueues, id)
                 THEN /\ last'.out = messageQueues[id]
                      /\ messageQueues' = [messageQueues EXCEPT ![id] = <<>>]
                 ELSE /\ last'.out = <<>>
                      /\ messageQueues' = messageQueues]_vars

\* A getPendingMessages that returned two different messages
C16_Witness ==
    /\ last.op = "getPendingMessages"
    /\ Len(last.out) = 2
    /\ last.out[1] # last.out[2]
    /\ queuesHas(messageQueues, last.clientId)
    /\ messageQueues[last.clientId] = <<>>

\* C17: a drain of a client's queue returns the messages the queue holds and
\* leaves none of them in it, so that a drain right after a drain returns
\* nothing; an accepted sendToClient adds its message at the tail and removes
\* at most the oldest; and no other step puts a message in the queue (it
\* leaves the queue as it is, or without messages). So what a drain returns
\* is what was sent and accepted since the drain before, less the evicted,
\* and nothing is returned twice.
C17_DrainRestartable ==
    [][\A id \in ClientIds :
        LET before == QueueOf(messageQueues, id)
            after == QueueOf(messageQueues', id)
        IN  IF Drains(last', id)
            THEN /\ last'.out = before
                 /\ after = <<>>
                 /\ Drains(last, id) => last'.out = <<>>
            ELSE IF last'.op = "sendToClient" /\ last'.clientId = id /\ last'.ret
            THEN LET pushed == Append(before, Entry(last'.eventType, last'.data))
                 IN  queuesHas(messageQueues, id) => after \in {pushed, shift(pushed)}
            ELSE after = before \/ after = <<>>]_vars

\* A short poll right after a short poll of the same client: it drained
\* nothing
C17_Witness ==
    /\ last.op = "poll"
    /\ last.again
    /\ ~last.hasLastEventId
    /\ last.out = <<>>
    /\ queuesHas(messageQueues, last.clientId)

\* The (eventType, data) of the message frames of a short poll's body, in
\* order
BodyEntries(body) ==
    LET frames == SelectSeq(body, LAMBDA f : f.line = "data" /\ "event" \in DOMAIN f.message)
    IN  [i \in 1..Len(frames) |-> Entry(frames[i].message.event, frames[i].message.data)]

ConnectedCount(body) == Len(SelectSeq(body, LAMBDA f : f = EventLine("connected")))

\* C19: the body of a short poll holds a connected event exactly when the
\* request has no last_event_id and the drained queue was empty, and then
\* holds it once; and its message frames are those of the drained messages,
\* in drain order.
C19_PollBody ==
    last.op = "poll"
    => (/\ ConnectedCount(last.body) <= 1
        /\ ConnectedCount(last.body) = 1 <=> (~last.hasLastEventId /\ last.out = <<>>)
        /\ BodyEntries(last.body) = last.out)

\* C20 as stated: a short poll right after a short poll of the same client
\* has a body with no connected event and no message frame.
C20_RepeatPollEmpty ==
    (last.op = "poll" /\ last.again)
    => (ConnectedCount(last.body) = 0 /\ BodyEntries(last.body) = <<>>)

\* C20, amended: a short poll right after a short poll of the same client has
\* a body with no message frame, and with no connected event exactly when the
\* request has a last_event_id.
C20_RepeatPollCursor ==
    (last.op = "poll" /\ last.again)
    => (/\ BodyEntries(last.body) = <<>>
        /\ ConnectedCount(last.body) = 0 <=> last.hasLastEventId)

\* A short poll with a last_event_id right after a short poll of the same
\* client: its body is empty
C20_Witness ==
    /\ last.op = "poll"
    /\ last.again
    /\ last.hasLastEventId
    /\ last.body = <<>>

\* C21: no sendToClient and no broadcast ends with an error on its way to the
\* caller: whatever the writes and the end() calls throw is caught in the
\* manager; a sendToClient whose write threw returns false.
C21_NothingThrown ==
    last.op \in {"sendToClient", "broadcast"}
    => (/\ last.thrown = "none"
        /\ (last.op = "sendToClient" /\ last.outcome[last.clientId] # "ok")
           => last.ret = FALSE)

\* A sendToClient whose write threw and that called end() on the response
C21_Witness ==
    /\ last.op = "sendToClient"
    /\ last.outcome[last.clientId] # "ok"
    /\ last.attempted # <<>>
    /\ last.ended # {}
    /\ last.thrown = "none"
    /\ last.ret = FALSE

\* The timer of a removeClient(clientId) that deleted an entry of clients has
\* not fired yet.
TimerPending(clientId) == \E i \in 1..Len(timers) : timers[i].clientId = clientId

TimersOf(tm, clientId) == Len(SelectSeq(tm, LAMBDA timer : timer.clientId = clientId))

\* C23: a timer scheduled by a removeClient(id) that deleted an entry of
\* clients fires in the end, and leaves the id without a queue; a
\* sendToClient(id) that finds neither an entry nor a queue returns false; and
\* a queue goes out of messageQueues only when a timer of its id fires, and
\* an id gets a timer only in a step that takes its entry out of clients, so
\* the queue of an id that never had an entry is never deleted.
C23_QueueLifecycle ==
    /\ \A id \in ClientIds :
          TimerPending(id)
          ~> (last.op = "timer" /\ last.clientId = id /\ ~queuesHas(messageQueues, id))
    /\ [][\A id \in ClientIds :
            /\ (queuesHas(messageQueues, id) /\ ~queuesHas(messageQueues', id))
               => (last'.op = "timer" /\ Head(timers).clientId = id)
            /\ TimersOf(timers', id) > TimersOf(timers, id)
               => (clientsHas(clients, id) /\ ~clientsHas(clients', id))
            /\ (/\ last'.op = "sendToClient"
                /\ last'.clientId = id
                /\ ~queuesHas(messageQueues, id)
                /\ ~clientsHas(clients, id))
               => last'.ret = FALSE]_vars

\* The timer of a removed client fired: the client, not registered again,
\* has no queue left
C23_Witness ==
    /\ last.op = "timer"
    /\ ~queuesHas(messageQueues, last.clientId)
    /\ ~clientsHas(clients, last.clientId)
    /\ ~TimerPending(last.clientId)

\* C24: a short poll of a client leaves clients, and so getClientCount(),
\* as it is, leaves the client with a queue, and leaves that queue empty: the
\* messages it held are in the body; the other queues are unchanged.
C24_PollFrame ==
    [][last'.op = "poll"
       => LET id == last'.clientId
          IN  /\ clients' = clients
              /\ getClientCount(clients') = getClientCount(clients)
              /\ resState' = resState
              /\ messageQueues' = queuesSet(messageQueues, id, <<>>)
              /\ BodyEntries(last'.body) = QueueOf(messageQueues, id)]_vars

\* A short poll of a client that has a long connection too, taking its
\* queued message
C24_Witness ==
    /\ last.op = "poll"
    /\ clientsHas(clients, last.clientId)
    /\ last.out # <<>>
    /\ messageQueues[last.clientId] = <<>>

\* C25: a long-connection request registers its new response under the
\* client id and writes the connected event to it, the first text the
\* response gets: sendToClient and broadcast write to registered responses
\* only, and the response was not registered before; and every close or
\* error event of a long connection leaves clients without an entry for the
\* connection's client id.
C25_PushConnect ==
    [][/\ last'.op = "addClientResponse"
          => \E r \in Responses :
                /\ resState[r] = "fresh"
                /\ ~\E i \in 1..Len(clients) : clients[i].response = r
                /\ clientsHas(clients', last'.clientId)
                /\ clientsGet(clients', last'.clientId) = r
                /\ exchanges'[r] = last'.clientId
                /\ last'.wrote = [i \in 1..2 |->
                                    [response |-> r,
                                     text |-> initialMessage(last'.clientId)[i]]]
       /\ last'.op \in {"sendToClient", "broadcast"}
          => \A i \in 1..Len(last'.wrote) :
                /\ resState[last'.wrote[i].response] # "fresh"
                /\ \E j \in 1..Len(clients) : clients[j].response = last'.wrote[i].response
       /\ last'.op \in {"close", "error"}
          => (/\ exchanges[last'.exchange] = last'.clientId
              /\ ~clientsHas(clients', last'.clientId))]_vars

\* The close event of a registered long connection: its entry is gone
C25_Witness ==
    /\ last.op = "close"
    /\ last.ended = {last.exchange}
    /\ exchanges[last.exchange] = ""
    /\ ~clientsHas(clients, last.clientId)
    /\ TimerPending(last.clientId)

\* C26: in every reachable state clients holds at most one response per
\* client id; and a long-connection request of a client that has a response
\* h1 in clients makes its new response h2 the client's entry, calls end()
\* on no response, h1 included, and leaves getClientCount() as it was.
C26_OneResponsePerClient ==
    /\ [](\A i, j \in 1..Len(clients) :
            clients[i].clientId = clients[j].clientId => i = j)
    /\ [][(last'.op = "addClientResponse" /\ clientsHas(clients, last'.clientId))
          => LET id == last'.clientId
                 h1 == clientsGet(clients, id)
                 h2 == clientsGet(clients', id)
             IN  /\ h2 # h1
                 /\ resState[h2] = "fresh"
                 /\ \A i \in 1..Len(clients') :
                       clients'[i].clientId = id => clients'[i].response = h2
                 /\ ~\E i \in 1..Len(clients') : clients'[i].response = h1
                 /\ last'.ended = {}
                 /\ getClientCount(clients') = getClientCount(clients)]_vars

\* A second long connection of a client whose first response is still open
\* and in clients: the second response is the entry, the first was not ended
C26_Witness ==
    /\ last.op = "addClientResponse"
    /\ clientsGet(clients, last.clientId) = 2
    /\ exchanges[1] = last.clientId
    /\ resState[1] = "released"
    /\ last.ended = {}
    /\ getClientCount(clients) = 1

\* C27: the close or error event of a long connection whose response is no
\* longer the one in clients, because the client has connected again since,
\* leaves the client's current response in clients, calls end() on nothing
\* and schedules no timer.
C27_OldExchangeEvent ==
    [][(/\ last'.op \in {"close", "error"}
        /\ clientsHas(clients, last'.clientId)
        /\ clientsGet(clients, last'.clientId) # last'.exchange)
       => (/\ clients' = clients
           /\ last'.ended = {}
           /\ resState' = resState
           /\ timers' = timers)]_vars

\* The close event of the first long connection of a client after the client
\* connected again: it took the second response out of clients, ended it and
\* scheduled the deletion of the client's queue
C27_OldEventRemovesNew ==
    /\ last.op = "close"
    /\ last.exchange = 1
    /\ exchanges[2] = last.clientId
    /\ last.ended = {2}
    /\ ~clientsHas(clients, last.clientId)
    /\ TimerPending(last.clientId)

\* C28: the frame of a message is fixed when sendToClient is called, its
\* timestamp included: the body of a short poll is the same whatever the time
\* of the poll, and a short poll that follows a sendToClient written to the
\* client's response ends with the two lines that call wrote.
C28_PollFrameIsSendFrame ==
    [][last'.op = "poll"
       => LET id == last'.clientId
          IN  /\ \A t \in 0..MaxTime :
                    handleSSEConnectionPoll(Cur, id, last'.hasLastEventId, t).body
                    = last'.body
              /\ (/\ last.op = "sendToClient"
                  /\ last.clientId = id
                  /\ Len(last.wrote) = 2
                  /\ queuesHas(messageQueues, id)
                  /\ messageQueues[id] # <<>>)
                 => LastN(last'.body, 2) = <<last.wrote[1].text, last.wrote[2].text>>]_vars

\* A short poll at time 1 returning a message whose frame carries the time
\* of the poll
C28_PollStampsFrame ==
    /\ last.op = "poll"
    /\ now = 1
    /\ last.out # <<>>
    /\ \E i \in 1..Len(last.body) :
          /\ last.body[i].line = "data"
          /\ "timestamp" \in DOMAIN last.body[i].message
          /\ last.body[i].message.timestamp = 1

====
